---- MODULE Spec2Model ----
(***************************************************************************)
(* Model of the order / line-item synthesis engine of populate.py:         *)
(* create_orders (the batching loop) and batch_insert_orders_and_items     *)
(* (the committer), over a PostgreSQL connection in psycopg2's default     *)
(* transactional mode.                                                     *)
(*                                                                         *)
(* Money is held in cents (price 2.50 is 250).  order_timestamp is the     *)
(* 1-based generation index of the order, so that rows stay                *)
(* distinguishable.  Every row carries xmin, the number of the committer   *)
(* call (one transaction per call) that inserted it.                       *)
(***************************************************************************)
EXTENDS Integers, Sequences, FiniteSets, TLC

\* ---- bounds of the model
MaxOrders == 5
MaxBatch == 2
MaxLineItems == 1
MaxDirectItems == 2
MaxPriceOffset == 0

\* ---- program constants
QtyMin == 1
QtyMax == 3
PriceMin == 250
PriceMax == 2000
None == 0

\* identifiers the reference tables may hold
StorePool == {1}
CustomerPool == {1}
MenuPool == {1}

VARIABLES
  stores, customers, items,      \* reference ids loaded by create_orders
  NUM_ORDERS, BATCH_SIZE,        \* configuration
  pc, site,                      \* control point, and the call site of the committer
  generated, generated_items,    \* orders / line items generated so far
  order_records, order_items_records,
  db, tx,                        \* durable tables, and the connection's view of them
  order_id_seq,                  \* last value of the orders_order_id sequence
  order_ids, assigned_items, tape,
  error,                         \* exception that ended the run, or "none"
  calls                          \* one entry per committer call: what it was given

vars == <<stores, customers, items, NUM_ORDERS, BATCH_SIZE, pc, site, generated,
          generated_items, order_records, order_items_records, db, tx,
          order_id_seq, order_ids, assigned_items, tape, error, calls>>

EmptyTables == [orders |-> {}, order_items |-> <<>>]

\* ---- generation (create_orders)

\* the tuple appended to order_records, total_amount a placeholder
NewOrderRecordNonZero(c, s, ts) == <<c, s, ts, PriceMin>>
NewOrderRecord(c, s, ts) == <<c, s, ts, 0>>

\* the tuple appended to order_items_records, order_id to fill later
NewItemRecord(li) == <<None, li[1], li[2], li[3]>>

\* qty = random.randint(1, 3)
Quantities == QtyMin..QtyMax

\* price = round(random.uniform(2.5, 20.0), 2), in cents; the model draws
\* from the lowest MaxPriceOffset + 1 of these values
Prices ==
  PriceMin..(IF PriceMin + MaxPriceOffset < PriceMax
               THEN PriceMin + MaxPriceOffset ELSE PriceMax)

\* the (item, qty, price) a line item may be: item, qty and price are drawn
\* independently of each other
LineItemDraws(its) == its \X Quantities \X Prices

\* random.choice / random.choices index an empty list: IndexError
ChoiceRaisesCustomersOnly(st, cu, it) == cu = {}
ChoiceRaises(st, cu, it) == cu = {} \/ st = {} \/ it = {}

\* if len(order_records) >= BATCH_SIZE
FlushDueStrict(n, b) == n > b
FlushDue(n, b) == n >= b

\* ---- the connection

\* an executed statement is not durable before conn.commit()
DurableAfterStatementAutocommit(d, t) == t
DurableAfterStatement(d, t) == d

\* conn.close() with a transaction open discards it
DurableAfterCloseCommits(d, t) == t
DurableAfterClose(d, t) == d

\* ---- the cursor

NewCursor == [executed |-> FALSE, rows |-> <<>>]

\* psycopg2.extras.execute_values(cur, sql, argslist, fetch=True): runs one
\* statement per page of argslist and, with fetch=True, fetches every page's
\* rows into its own return value, which the caller drops.  No page, no
\* statement.  The cursor is left with its result read to the end.
execute_values_fetch(c, returned) ==
  IF returned = <<>> THEN c ELSE [executed |-> TRUE, rows |-> <<>>]

\* cur.fetchall(): the rows not yet fetched; with no statement executed it
\* raises ProgrammingError("no results to fetch")
FetchallRaisesNever(c) == FALSE
FetchallRaises(c) == ~c.executed
fetchall(c) == c.rows

\* ---- the tables

OrderRow(id, rec, x) ==
  [order_id |-> id, customer_id |-> rec[1], store_id |-> rec[2],
   order_timestamp |-> rec[3], total_amount |-> rec[4], xmin |-> x]

ItemRow(rec, x) ==
  [order_id |-> rec[1], item_id |-> rec[2], quantity |-> rec[3],
   price |-> rec[4], xmin |-> x]

\* ids the INSERT ... RETURNING order_id yields, in the order of the rows
ReturnedIds(seqval, n) == [k \in 1..n |-> seqval + k]

RECURSIVE SumFor(_, _)
\* SUM(quantity * price_at_time_of_order) over the items of one order
SumFor(its, id) ==
  IF its = <<>> THEN 0
  ELSE (IF Head(its).order_id = id THEN Head(its).quantity * Head(its).price ELSE 0)
       + SumFor(Tail(its), id)

HasItems(its, id) == \E k \in 1..Len(its) : its[k].order_id = id

\* SELECT order_id FROM orders ORDER BY order_id DESC LIMIT n
LatestOrderIds(orders, n) ==
  {o.order_id : o \in {p \in orders :
      Cardinality({q \in orders : q.order_id > p.order_id}) < n}}

\* the UPDATE ... FROM (SELECT ... GROUP BY order_id) sub WHERE o.order_id =
\* sub.order_id: only orders that have a group in sub are written
UpdateTotals(t, n) ==
  LET window == LatestOrderIds(t.orders, n)
  IN [t EXCEPT !.orders =
        {IF o.order_id \in window /\ HasItems(t.order_items, o.order_id)
           THEN [o EXCEPT !.total_amount = SumFor(t.order_items, o.order_id)]
           ELSE o : o \in t.orders}]

\* ---- the assignment walk

Min(a, b) == IF a < b THEN a ELSE b

RECURSIVE WalkFrom(_, _, _, _, _, _)
WalkFrom(ids, recs, t, i, pos, acc) ==
  IF i > Len(recs) \/ pos > Len(ids)
    THEN [assigned |-> acc, consumed |-> Len(acc)]
    ELSE WalkFrom(ids, recs, t, i + 1, IF t[i] THEN pos + 1 ELSE pos,
                  Append(acc, <<ids[pos], recs[i][2], recs[i][3], recs[i][4]>>))

RECURSIVE WalkNoGuardFrom(_, _, _, _, _, _)
WalkNoGuardFrom(ids, recs, t, i, pos, acc) ==
  IF i > Len(recs)
    THEN [assigned |-> acc, consumed |-> Min(Len(acc), Len(t))]
    ELSE WalkNoGuardFrom(ids, recs, t, i + 1,
           IF i \in DOMAIN t /\ t[i] THEN pos + 1 ELSE pos,
           Append(acc, <<IF pos > Len(ids) THEN None ELSE ids[pos],
                         recs[i][2], recs[i][3], recs[i][4]>>))

\* the walk without its "if current_order_id is None: break"
WalkNoGuard(ids, recs, t) == WalkNoGuardFrom(ids, recs, t, 1, 1, <<>>)

\* t[i] is the outcome of random.random() < 0.4 drawn after the i-th
\* assignment; the walk stops at the first item that finds no current order
Walk(ids, recs, t) == WalkFrom(ids, recs, t, 1, 1, <<>>)

\* how many outcomes the walk can draw: one per line item at most, and none
\* when next(order_ids_iter, None) is None from the start
DrawsPossible(ids, recs) == IF ids = <<>> THEN 0 ELSE Len(recs)

\* ---- create_orders

Init ==
  /\ stores \in SUBSET StorePool
  /\ customers \in SUBSET CustomerPool
  /\ items \in SUBSET MenuPool
  /\ NUM_ORDERS \in 0..MaxOrders
  /\ BATCH_SIZE \in 1..MaxBatch
  /\ pc = "loop"
  /\ site = "none"
  /\ generated = 0
  /\ generated_items = 0
  /\ order_records = <<>>
  /\ order_items_records = <<>>
  /\ db = EmptyTables
  /\ tx = EmptyTables
  /\ order_id_seq = 0
  /\ order_ids = <<>>
  /\ assigned_items = <<>>
  /\ tape = <<>>
  /\ error = "none"
  /\ calls = <<>>

\* one pass of the for loop, up to and including the call of the committer
GenerateOrder ==
  /\ pc = "loop"
  /\ generated < NUM_ORDERS
  /\ ~ChoiceRaises(stores, customers, items)
  /\ \E customer_id \in customers, store_id \in stores, num_line_items \in 1..MaxLineItems :
       \E chosen \in [1..num_line_items -> LineItemDraws(items)] :
         /\ order_records' =
              Append(order_records, NewOrderRecord(customer_id, store_id, generated + 1))
         /\ order_items_records' =
              order_items_records \o [j \in 1..num_line_items |-> NewItemRecord(chosen[j])]
         /\ generated_items' = generated_items + num_line_items
  /\ generated' = generated + 1
  /\ IF FlushDue(Len(order_records'), BATCH_SIZE)
       THEN pc' = "insert_orders" /\ site' = "loop"
       ELSE pc' = "loop" /\ site' = site
  /\ UNCHANGED <<stores, customers, items, NUM_ORDERS, BATCH_SIZE, db, tx,
                 order_id_seq, order_ids, assigned_items, tape, error, calls>>

\* the first pass of the loop with an empty reference list: the exception
\* leaves create_orders and main, whose finally closes the connection
GenerateRaises ==
  /\ pc = "loop"
  /\ generated < NUM_ORDERS
  /\ ChoiceRaises(stores, customers, items)
  /\ pc' = "failed"
  /\ error' = "IndexError"
  /\ db' = DurableAfterClose(db, tx)
  /\ tx' = db'
  /\ UNCHANGED <<stores, customers, items, NUM_ORDERS, BATCH_SIZE, site, generated,
                 generated_items, order_records, order_items_records, order_id_seq,
                 order_ids, assigned_items, tape, calls>>

\* after the loop: if order_records: batch_insert_orders_and_items(...)
FinalFlush ==
  /\ pc = "loop"
  /\ generated = NUM_ORDERS
  /\ IF order_records # <<>>
       THEN pc' = "insert_orders" /\ site' = "final"
       ELSE pc' = "done" /\ site' = site
  /\ UNCHANGED <<stores, customers, items, NUM_ORDERS, BATCH_SIZE, generated,
                 generated_items, order_records, order_items_records, db, tx,
                 order_id_seq, order_ids, assigned_items, tape, error, calls>>

\* back in the loop after the committer returned: both accumulators cleared
ClearAccumulator ==
  /\ pc = "returned"
  /\ site = "loop"
  /\ order_records' = <<>>
  /\ order_items_records' = <<>>
  /\ pc' = "loop"
  /\ UNCHANGED <<stores, customers, items, NUM_ORDERS, BATCH_SIZE, site, generated,
                 generated_items, db, tx, order_id_seq, order_ids, assigned_items,
                 tape, error, calls>>

\* the final flush returned
Finish ==
  /\ pc = "returned"
  /\ site = "final"
  /\ pc' = "done"
  /\ UNCHANGED <<stores, customers, items, NUM_ORDERS, BATCH_SIZE, site, generated,
                 generated_items, order_records, order_items_records, db, tx,
                 order_id_seq, order_ids, assigned_items, tape, error, calls>>

\* ---- batch_insert_orders_and_items

\* the number of this committer call, the transaction its rows belong to
ThisCall == Len(calls)

\* the orders INSERT, cur.fetchall(), and the assignment walk
InsertOrdersAndAssign ==
  /\ pc = "insert_orders"
  /\ LET n == Len(order_records)
         ids == ReturnedIds(order_id_seq, n)
         x == Len(calls) + 1
         c == execute_values_fetch(NewCursor, ids)
         t1 == [tx EXCEPT !.orders =
                  @ \cup {OrderRow(ids[k], order_records[k], x) : k \in 1..n}]
     IN /\ order_id_seq' = order_id_seq + n
        /\ IF FetchallRaises(c)
             THEN /\ pc' = "failed"
                  /\ error' = "ProgrammingError"
                  /\ db' = DurableAfterClose(db, t1)
                  /\ tx' = db'
                  /\ order_ids' = order_ids
                  /\ assigned_items' = assigned_items
                  /\ tape' = tape
                  /\ calls' = Append(calls, [ts |-> [k \in 1..n |-> order_records[k][3]],
                                             items |-> Len(order_items_records),
                                             assigned |-> 0])
             ELSE \E t \in [1..DrawsPossible(fetchall(c), order_items_records) -> BOOLEAN] :
                    LET w == Walk(fetchall(c), order_items_records, t)
                    IN /\ pc' = "insert_items"
                       /\ error' = error
                       /\ tx' = t1
                       /\ db' = DurableAfterStatement(db, t1)
                       /\ order_ids' = fetchall(c)
                       /\ assigned_items' = w.assigned
                       /\ tape' = SubSeq(t, 1, w.consumed)
                       /\ calls' = Append(calls, [ts |-> [k \in 1..n |-> order_records[k][3]],
                                                  items |-> Len(order_items_records),
                                                  assigned |-> Len(w.assigned)])
  /\ UNCHANGED <<stores, customers, items, NUM_ORDERS, BATCH_SIZE, site, generated,
                 generated_items, order_records, order_items_records>>

\* if assigned_items: the order_items INSERT
InsertItems ==
  /\ pc = "insert_items"
  /\ tx' = IF assigned_items # <<>>
             THEN [tx EXCEPT !.order_items =
                     @ \o [k \in 1..Len(assigned_items) |-> ItemRow(assigned_items[k], ThisCall)]]
             ELSE tx
  /\ db' = DurableAfterStatement(db, tx')
  /\ pc' = "update_totals"
  /\ UNCHANGED <<stores, customers, items, NUM_ORDERS, BATCH_SIZE, site, generated,
                 generated_items, order_records, order_items_records, order_id_seq,
                 order_ids, assigned_items, tape, error, calls>>

\* the UPDATE of total_amount, LIMIT len(order_ids)
UpdateOrderTotals ==
  /\ pc = "update_totals"
  /\ tx' = UpdateTotals(tx, Len(order_ids))
  /\ db' = DurableAfterStatement(db, tx')
  /\ pc' = "commit"
  /\ UNCHANGED <<stores, customers, items, NUM_ORDERS, BATCH_SIZE, site, generated,
                 generated_items, order_records, order_items_records, order_id_seq,
                 order_ids, assigned_items, tape, error, calls>>

\* conn.commit(); return order_ids
Commit ==
  /\ pc = "commit"
  /\ db' = tx
  /\ pc' = "returned"
  /\ UNCHANGED <<stores, customers, items, NUM_ORDERS, BATCH_SIZE, site, generated,
                 generated_items, order_records, order_items_records, tx, order_id_seq,
                 order_ids, assigned_items, tape, error, calls>>

\* the control points at which the next thing the committer does is a call
\* to the storage
StorageCallPending ==
  IF pc = "insert_orders" THEN order_records # <<>>
  ELSE IF pc = "insert_items" THEN assigned_items # <<>>
  ELSE pc \in {"update_totals", "commit"}

\* the storage call raises; the exception leaves the committer, create_orders
\* and main, whose finally closes the connection
StorageFailure ==
  /\ StorageCallPending
  /\ pc' = "failed"
  /\ error' = "OperationalError"
  /\ db' = DurableAfterClose(db, tx)
  /\ tx' = db'
  /\ calls' = IF pc = "insert_orders"
                THEN Append(calls, [ts |-> [k \in 1..Len(order_records) |-> order_records[k][3]],
                                    items |-> Len(order_items_records),
                                    assigned |-> 0])
                ELSE calls
  /\ UNCHANGED <<stores, customers, items, NUM_ORDERS, BATCH_SIZE, site, generated,
                 generated_items, order_records, order_items_records, order_id_seq,
                 order_ids, assigned_items, tape>>

CommitterStep ==
  \/ InsertOrdersAndAssign
  \/ InsertItems
  \/ UpdateOrderTotals
  \/ Commit
  \/ StorageFailure

Next ==
  \/ GenerateOrder
  \/ GenerateRaises
  \/ FinalFlush
  \/ ClearAccumulator
  \/ Finish
  \/ CommitterStep

Spec == Init /\ [][Next]_vars

\* ---- the committer called on its own, on any batch shape

\* a table that already holds one committed order (xmin 0: an earlier run)
PriorTables ==
  [orders |-> {OrderRow(1, NewOrderRecord(1, 1, 0), 0)}, order_items |-> <<>>]

InitCommit ==
  /\ stores = StorePool
  /\ customers = CustomerPool
  /\ items = MenuPool
  /\ \E n \in 0..MaxBatch :
       /\ order_records = [k \in 1..n |-> NewOrderRecord(1, 1, k)]
       /\ NUM_ORDERS = n
       /\ generated = n
  /\ BATCH_SIZE = MaxBatch
  /\ \E m \in 0..MaxDirectItems :
       /\ order_items_records \in
            [1..m -> {NewItemRecord(li) : li \in LineItemDraws(MenuPool)}]
       /\ generated_items = m
  /\ pc = "insert_orders"
  /\ site = "direct"
  /\ db \in {EmptyTables, PriorTables}
  /\ tx = db
  /\ order_id_seq = Cardinality(db.orders)
  /\ order_ids = <<>>
  /\ assigned_items = <<>>
  /\ tape = <<>>
  /\ error = "none"
  /\ calls = <<>>

SpecCommit == InitCommit /\ [][CommitterStep]_vars

\* ---- what the claims speak of

Range(f) == {f[k] : k \in DOMAIN f}

DurableOrdersOf(k) == {o \in db.orders : o.xmin = k}

DurableItemsOf(k) == SelectSeq(db.order_items, LAMBDA r : r.xmin = k)

\* call k has returned (a failed call is the last one: the run stops there)
CallSucceeded(k) ==
  k < Len(calls) \/ pc \in {"returned", "loop", "insert_orders", "done"}

RECURSIVE OrdersIn(_, _)
\* orders handed to the committer by the first k calls
OrdersIn(cs, k) == IF k = 0 THEN 0 ELSE Len(cs[k].ts) + OrdersIn(cs, k - 1)

RECURSIVE ItemsIn(_, _)
\* line items handed to the committer by the first k calls
ItemsIn(cs, k) == IF k = 0 THEN 0 ELSE cs[k].items + ItemsIn(cs, k - 1)

RECURSIVE TimestampsIn(_, _)
\* the orders of the first k calls, by generation index, in submission order
TimestampsIn(cs, k) == IF k = 0 THEN <<>> ELSE TimestampsIn(cs, k - 1) \o cs[k].ts

\* position, among the committed orders, the walk is at when it reaches the
\* i-th line item: one more than the advances drawn after items 1..i-1
Position(t, i) == 1 + Cardinality({j \in 1..(i - 1) : t[j]})

\* identifier of the row persisted for the p-th submitted order of this call
CommittedIdAt(p) ==
  LET row == {o \in DurableOrdersOf(ThisCall) : o.order_timestamp = order_records[p][3]}
  IN IF row = {} THEN None ELSE (CHOOSE o \in row : TRUE).order_id

\* C1: in the durable tables every order's total_amount is the sum of
\* quantity * price over the line items stored under its order_id, and is 0
\* for an order with no line item.
TotalsMatchLineItems ==
  \A o \in db.orders : o.total_amount = SumFor(db.order_items, o.order_id)

\* C1 witness: a batch that was given line items has been committed and one
\* of its orders is stored with total 0.
TotalsMatchLineItemsWitness ==
  /\ pc = "returned"
  /\ Len(order_items_records) >= 2
  /\ \E o \in DurableOrdersOf(ThisCall) :
       o.total_amount = 0 /\ ~HasItems(db.order_items, o.order_id)

\* C2: a commit that returns hands back one identifier per submitted order,
\* the k-th being the identifier of the row persisted for the k-th order.
ReturnsOneIdPerOrder ==
  pc = "returned" =>
    /\ Len(order_ids) = Len(order_records)
    /\ \A k \in 1..Len(order_ids) : order_ids[k] = CommittedIdAt(k)

\* C3: after a commit of at least one order has returned, every submitted
\* line item the walk reaches before running past the last committed order
\* is in the durable order_items, under an order of the same call.
ItemsPersistedUnlessExhausted ==
  (pc = "returned" /\ order_records # <<>>) =>
    LET p == DurableItemsOf(ThisCall)
    IN \A i \in 1..Min(Len(order_items_records), Len(tape) + 1) :
         Position(tape, i) <= Len(order_records) =>
           /\ i <= Len(p)
           /\ p[i].item_id = order_items_records[i][2]
           /\ \E o \in DurableOrdersOf(ThisCall) : o.order_id = p[i].order_id

\* C4: every durable line item has a non-null order_id, which is the
\* order_id of a durable order inserted by the same call.
LineItemsReferenceOwnBatch ==
  \A k \in 1..Len(db.order_items) :
    /\ db.order_items[k].order_id # None
    /\ \E o \in db.orders :
         o.order_id = db.order_items[k].order_id /\ o.xmin = db.order_items[k].xmin

\* C4 witness: a second batch, given line items, has been committed.
LineItemsReferenceOwnBatchWitness ==
  /\ pc = "returned"
  /\ Len(calls) >= 2
  /\ calls[2].items >= 1
  /\ DurableOrdersOf(2) # {}

\* C5: of every committer call the durable tables hold either everything
\* (all its orders, the line items it assigned, the totals recomputed from
\* them) when it has returned, or nothing when it is under way or has failed.
BatchAtomic ==
  \A k \in 1..Len(calls) :
    IF CallSucceeded(k)
      THEN /\ {o.order_timestamp : o \in DurableOrdersOf(k)} = Range(calls[k].ts)
           /\ Cardinality(DurableOrdersOf(k)) = Len(calls[k].ts)
           /\ Len(DurableItemsOf(k)) = calls[k].assigned
           /\ \A o \in DurableOrdersOf(k) :
                o.total_amount = SumFor(db.order_items, o.order_id)
      ELSE DurableOrdersOf(k) = {} /\ DurableItemsOf(k) = <<>>

\* C5 witness: the second call failed in the storage after the first one
\* was committed.
BatchAtomicWitness ==
  /\ pc = "failed"
  /\ error = "OperationalError"
  /\ Len(calls) = 2
  /\ DurableOrdersOf(1) # {}
  /\ order_id_seq > Cardinality(db.orders)

\* C6: no call is given an empty batch, every call but the last is given
\* BATCH_SIZE orders, and a run that ends without failure has made
\* ceil(NUM_ORDERS / BATCH_SIZE) calls, the last one of NUM_ORDERS mod
\* BATCH_SIZE orders when that is not 0, which between them were given every
\* generated order once, in generation order, and every generated line item.
BatchingLaw ==
  /\ \A k \in 1..Len(calls) :
       /\ Len(calls[k].ts) >= 1
       /\ k < Len(calls) => Len(calls[k].ts) = BATCH_SIZE
  /\ pc = "done" =>
       /\ Len(calls) = (NUM_ORDERS + BATCH_SIZE - 1) \div BATCH_SIZE
       /\ \A k \in 1..Len(calls) :
            Len(calls[k].ts) = IF k <= NUM_ORDERS \div BATCH_SIZE
                                 THEN BATCH_SIZE ELSE NUM_ORDERS % BATCH_SIZE
       /\ TimestampsIn(calls, Len(calls)) = [k \in 1..NUM_ORDERS |-> k]
       /\ ItemsIn(calls, Len(calls)) = generated_items

\* C6 witness: the run of 5 orders in batches of 2 ended after calls of 2, 2
\* and 1 orders.
BatchingLawWitness ==
  /\ pc = "done"
  /\ NUM_ORDERS = 5
  /\ BATCH_SIZE = 2
  /\ Len(calls) = 3
  /\ Len(calls[3].ts) = 1

\* what holds once a committer call has failed in the storage
FailedRunState ==
  error = "OperationalError" =>
    /\ pc = "failed"
    /\ \A k \in 1..(Len(calls) - 1) :
         /\ {o.order_timestamp : o \in DurableOrdersOf(k)} = Range(calls[k].ts)
         /\ \A o \in DurableOrdersOf(k) :
              o.total_amount = SumFor(db.order_items, o.order_id)
    /\ Cardinality(db.orders) = OrdersIn(calls, Len(calls) - 1)
    /\ generated = OrdersIn(calls, Len(calls))

\* C7: a failing call leaves the durable tables as they were, holding the
\* earlier batches whole; nothing was generated beyond the failed batch, and
\* the run takes no step after the failure.
FailedBatchStopsRun ==
  /\ []FailedRunState
  /\ [][/\ error = "none"
        /\ error' # "none" => (pc' = "failed" /\ db' = db)]_vars

\* C7 witness: the second call failed with orders still to generate.
FailedBatchStopsRunWitness ==
  /\ pc = "failed"
  /\ error = "OperationalError"
  /\ Len(calls) = 2
  /\ generated < NUM_ORDERS
  /\ Cardinality(db.orders) = BATCH_SIZE

\* C8: the committer called with no order and some line items does not
\* return: it ends in the error raised for the batch shape, the tables as
\* they were.
EmptyOrdersRejected ==
  (order_records = <<>> /\ order_items_records # <<>>) =>
    /\ db.order_items = <<>>
    /\ db.orders \subseteq PriorTables.orders
    /\ \/ pc = "insert_orders" /\ ENABLED InsertOrdersAndAssign
       \/ pc = "failed" /\ error = "ProgrammingError"

\* C8 witness: such a call has ended in the error.
EmptyOrdersRejectedWitness ==
  /\ order_records = <<>>
  /\ Len(order_items_records) = 2
  /\ pc = "failed"
  /\ error = "ProgrammingError"

\* C9 as stated: with an empty reference set the run never ends normally,
\* whatever the target.
EmptyReferenceSetAlwaysFails ==
  (stores = {} \/ customers = {} \/ items = {}) => pc # "done"

\* C9 amended: with an empty reference set and a target of at least one
\* order, the run fails in the first pass of the loop, before any order is
\* generated or stored.
EmptyReferenceSetFailsFirstPass ==
  ((stores = {} \/ customers = {} \/ items = {}) /\ NUM_ORDERS >= 1) =>
    /\ generated = 0
    /\ order_records = <<>>
    /\ order_items_records = <<>>
    /\ calls = <<>>
    /\ db = EmptyTables
    /\ \/ pc = "loop" /\ ENABLED GenerateRaises
       \/ pc = "failed" /\ error = "IndexError"

\* C9 witness: the menu is empty, stores and customers are not, and the run
\* has failed.
EmptyReferenceSetFailsFirstPassWitness ==
  /\ items = {}
  /\ stores # {}
  /\ customers # {}
  /\ NUM_ORDERS >= 1
  /\ pc = "failed"
  /\ error = "IndexError"

\* C10: after a commit of orders and line items has returned, one outcome
\* was drawn per assigned line item, the i-th line item went to the committed
\* order at position 1 + (advances drawn after items 1..i-1), and the
\* assignment stopped only at a line item whose position lies past the last
\* order.
TapeDeterminesAssignment ==
  (pc = "returned" /\ order_records # <<>> /\ order_items_records # <<>>) =>
    /\ Len(tape) = Len(assigned_items)
    /\ \A i \in 1..Len(assigned_items) :
         /\ Position(tape, i) <= Len(order_records)
         /\ assigned_items[i][1] = CommittedIdAt(Position(tape, i))
         /\ assigned_items[i][2] = order_items_records[i][2]
    /\ Len(assigned_items) < Len(order_items_records) =>
         Position(tape, Len(assigned_items) + 1) > Len(order_records)

====
